---- MODULE Spec2Model ----
(***************************************************************************)
(* Model of vid2audconverter.py: a command-line tool that turns video URLs *)
(* into MP3 files by driving the external yt-dlp program.                  *)
(*                                                                         *)
(* Python strings are sequences of one-character strings, so that strip,   *)
(* the filename filter, startswith and urlparse are computed character by  *)
(* character.  Files are records; directories are sets of files.           *)
(***************************************************************************)
EXTENDS Integers, Sequences, FiniteSets, TLC

VARIABLES
  \* ---- main(): one run of the program ----
  pc,            \* position of main()
  mode,          \* "batch" (args.file given) or "interactive"
  toolPresent,   \* what shutil.which("yt-dlp") finds at start-up
  depChecks,     \* calls of check_dependencies
  fileReads,     \* URL files opened
  subprocCalls,  \* subprocess.run invocations
  urls,          \* the set returned by process_url_file
  invalidCount,  \* len(invalid_urls) reported by process_url_file
  pending,       \* URLs the for loop of batch_download has not reached yet
  cur,           \* URL being processed
  title,         \* result of get_video_title for cur
  titleOutcome,  \* how the --get-title invocation for cur ended
  results,       \* the list batch_download builds
  err,           \* class of the exception that reached main's handlers
  report,        \* what main printed for it
  log,           \* history: one record per download_audio call
  \* ---- file system and process identity ----
  pid,           \* os.getpid()
  tmp,           \* the temp directory
  out,           \* the output directory (the script's directory)
  \* ---- process_url_file on its own ----
  rpc, rfile, rexists, rresult,
  \* ---- the title clean-up of get_video_title on its own ----
  spc, raw, san, san2,
  \* ---- several instances of the program fetching at once ----
  cpc,           \* position of each instance inside download_audio
  cpid,          \* process id of each instance
  cmoved         \* history: whose file each instance moved

mainVars == <<pc, mode, toolPresent, depChecks, fileReads, subprocCalls, urls,
              invalidCount, pending, cur, title, titleOutcome, results, err,
              report, log>>
fsVars == <<pid, tmp, out>>
readerVars == <<rpc, rfile, rexists, rresult>>
sanVars == <<spc, raw, san, san2>>
concVars == <<cpc, cpid, cmoved>>
vars == <<mainVars, fsVars, readerVars, sanVars, concVars>>

----------------------------------------------------------------------------
(* Bounds *)

MaxTitleLen == 3      \* longest raw title explored for the title clean-up
MaxLines == 3         \* most lines in a URL file
MaxPid == 12          \* process ids range over 1..MaxPid

----------------------------------------------------------------------------
(* Strings *)

RECURSIVE Concat(_)
Concat(ss) == IF ss = <<>> THEN <<>> ELSE Head(ss) \o Concat(Tail(ss))

SeqsUpTo(S, n) == UNION {[1..k -> S] : k \in 0..n}

\* str.startswith
startswith(s, p) == Len(p) =< Len(s) /\ SubSeq(s, 1, Len(p)) = p

\* needle in haystack, for strings
contains(hay, needle) ==
  \E i \in 1..(Len(hay) - Len(needle) + 1) :
     SubSeq(hay, i, i + Len(needle) - 1) = needle

\* the characters str.strip() removes at both ends
Whitespace == {" ", "\t", "\n", "\r", "\f"}

RECURSIVE lstrip(_)
lstrip(s) == IF s # <<>> /\ Head(s) \in Whitespace THEN lstrip(Tail(s)) ELSE s

RECURSIVE rstrip(_)
rstrip(s) ==
  IF s # <<>> /\ s[Len(s)] \in Whitespace
  THEN rstrip(SubSeq(s, 1, Len(s) - 1)) ELSE s

strip(s) == rstrip(lstrip(s))

----------------------------------------------------------------------------
(* get_video_title: the filename clean-up *)

LowerCase == {"a","b","c","d","e","f","g","h","i","j","k","l","m",
              "n","o","p","q","r","s","t","u","v","w","x","y","z"}
UpperCase == {"A","B","C","D","E","F","G","H","I","J","K","L","M",
              "N","O","P","Q","R","S","T","U","V","W","X","Y","Z"}
Digit == {"0","1","2","3","4","5","6","7","8","9"}

\* a clean-up that lets one more character through
valid_chars_leaky == {"-", "_", ".", "(", ")", " ", "!"} \cup LowerCase \cup UpperCase \cup Digit

valid_chars == {"-", "_", ".", "(", ")", " "} \cup LowerCase \cup UpperCase \cup Digit

\* "".join(c for c in title if c in valid_chars)
keep_valid(t) == SelectSeq(t, LAMBDA c : c \in valid_chars)

\* lines 33-36: strip the captured stdout, then drop the other characters
sanitize(stdout) == keep_valid(strip(stdout))

\* the fallback name of line 40
video == <<"v", "i", "d", "e", "o">>

mp3 == <<".", "m", "p", "3">>

\* f"{title}.mp3" in the script's directory
output_path(t) == t \o mp3

----------------------------------------------------------------------------
(* is_valid_youtube_url *)

\* index of the first occurrence of a character of cs at or after start,
\* Len(s) + 1 when there is none
FindFirst(s, cs, start) ==
  IF \E i \in start..Len(s) : s[i] \in cs
  THEN CHOOSE i \in start..Len(s) :
         s[i] \in cs /\ \A j \in start..(i - 1) : s[j] \notin cs
  ELSE Len(s) + 1

scheme_chars == LowerCase \cup UpperCase \cup Digit \cup {"+", "-", "."}

\* urlsplit: the url with a leading "<scheme>:" taken off
after_scheme(url) ==
  LET i == FindFirst(url, {":"}, 1)
  IN IF /\ i =< Len(url)
        /\ i > 1
        /\ url[1] \in LowerCase \cup UpperCase
        /\ \A k \in 1..(i - 1) : url[k] \in scheme_chars
     THEN SubSeq(url, i + 1, Len(url))
     ELSE url

\* urlparse(url).netloc, with the ValueError of unbalanced brackets
urlparse(url) ==
  LET u == after_scheme(lstrip(url))
  IN IF Len(u) >= 2 /\ SubSeq(u, 1, 2) = <<"/", "/">>
     THEN LET nl == SubSeq(u, 3, FindFirst(u, {"/", "?", "#"}, 3) - 1)
              lb == \E i \in 1..Len(nl) : nl[i] = "["
              rb == \E i \in 1..Len(nl) : nl[i] = "]"
          IN [raised |-> lb # rb, netloc |-> nl]
     ELSE [raised |-> FALSE, netloc |-> <<>>]

youtube_com == <<"y","o","u","t","u","b","e",".","c","o","m">>
youtu_be == <<"y","o","u","t","u",".","b","e">>

is_valid_youtube_url(url) ==
  LET parsed == urlparse(url)
  IN IF parsed.raised THEN FALSE
     ELSE contains(parsed.netloc, youtube_com) \/ contains(parsed.netloc, youtu_be)

----------------------------------------------------------------------------
(* process_url_file *)

\* a reader that forgets to skip blank lines
NonBlank_keepall(lines) == [i \in 1..Len(lines) |-> strip(lines[i])]

\* [line.strip() for line in f if line.strip()]
NonBlank(lines) ==
  LET kept == SelectSeq(lines, LAMBDA l : strip(l) # <<>>)
  IN [i \in 1..Len(kept) |-> strip(kept[i])]

process_url_file(exists, lines) ==
  IF ~exists
  THEN [raised |-> TRUE, unique_urls |-> {}, invalid_urls |-> <<>>]
  ELSE LET stripped == NonBlank(lines)
       IN [raised |-> FALSE,
           unique_urls |-> {stripped[i] : i \in {j \in 1..Len(stripped) :
                                                 is_valid_youtube_url(stripped[j])}},
           invalid_urls |-> SelectSeq(stripped, LAMBDA u : ~is_valid_youtube_url(u))]

----------------------------------------------------------------------------
(* Inputs *)

https == <<"h","t","t","p","s",":","/","/">>

UrlA == Concat(<<https, youtu_be, <<"/", "a">>>>)
UrlB == Concat(<<https, <<"w","w","w",".">>, youtube_com, <<"/", "b">>>>)
UrlC == Concat(<<https, youtu_be, <<"/", "c">>>>)

\* the lines a URL file is made of, each ending in its newline
Lines == {
  UrlA \o <<"\n">>,
  <<" ">> \o UrlA \o <<" ", "\n">>,
  UrlB \o <<"\n">>,
  UrlC,
  <<"\n">>,
  <<" ", "\t", "\n">>,
  <<"b","a","d","-","u","r","l","\n">>,
  youtu_be \o <<"/", "a", "\n">>,
  Concat(<<https, <<"e","x",".","c","o","m","/">>, youtu_be, <<"\n">>>>),
  Concat(<<https, <<"[">>, youtu_be, <<"/", "a", "\n">>>>)
}

Files == SeqsUpTo(Lines, MaxLines)

\* characters of raw titles
TitleChars == {"a", "B", "7", " ", "_", "!", "/", "\n"}

RawTitles == SeqsUpTo(TitleChars, MaxTitleLen)

----------------------------------------------------------------------------
(* Values of the variables a specification does not use *)

None == "None"

MainIdle ==
  /\ pc = "idle" /\ mode = "none" /\ toolPresent = TRUE
  /\ depChecks = 0 /\ fileReads = 0 /\ subprocCalls = 0
  /\ urls = {} /\ invalidCount = 0 /\ pending = {}
  /\ cur = <<>> /\ title = <<>> /\ titleOutcome = None
  /\ results = <<>> /\ err = None /\ report = None /\ log = {}

FsIdle == pid = 1 /\ tmp = {} /\ out = {}

ReaderIdle == rpc = "idle" /\ rfile = <<>> /\ rexists = TRUE /\ rresult = None

SanIdle == spc = "idle" /\ raw = <<>> /\ san = <<>> /\ san2 = <<>>

ConcIdle == cpc = <<>> /\ cpid = <<>> /\ cmoved = <<>>

----------------------------------------------------------------------------
(* The title clean-up on its own: clean a raw title, then clean the result *)

InitSanitize ==
  /\ raw \in RawTitles /\ spc = "raw" /\ san = <<>> /\ san2 = <<>>
  /\ MainIdle /\ FsIdle /\ ReaderIdle /\ ConcIdle

SanitizeTitle ==
  /\ spc = "raw"
  /\ san' = sanitize(raw)
  /\ spc' = "clean"
  /\ UNCHANGED <<raw, san2, mainVars, fsVars, readerVars, concVars>>

SanitizeAgain ==
  /\ spc = "clean"
  /\ san2' = sanitize(san)
  /\ spc' = "again"
  /\ UNCHANGED <<raw, san, mainVars, fsVars, readerVars, concVars>>

NextSanitize == SanitizeTitle \/ SanitizeAgain

SpecSanitize == InitSanitize /\ [][NextSanitize]_vars

----------------------------------------------------------------------------
(* process_url_file on its own: one call on one file *)

InitReader ==
  /\ rfile \in Files /\ rexists \in BOOLEAN /\ rpc = "start" /\ rresult = None
  /\ MainIdle /\ FsIdle /\ SanIdle /\ ConcIdle

ReadBatch ==
  /\ rpc = "start"
  /\ rresult' = process_url_file(rexists, rfile)
  /\ rpc' = "done"
  /\ UNCHANGED <<rfile, rexists, mainVars, fsVars, sanVars, concVars>>

NextReader == ReadBatch

SpecReader == InitReader /\ [][NextReader]_vars

----------------------------------------------------------------------------
(* The file system *)

temp_audio_ == <<"t","e","m","p","_","a","u","d","i","o","_">>

DigitChar(d) == CASE d = 0 -> "0" [] d = 1 -> "1" [] d = 2 -> "2" [] d = 3 -> "3"
                  [] d = 4 -> "4" [] d = 5 -> "5" [] d = 6 -> "6" [] d = 7 -> "7"
                  [] d = 8 -> "8" [] d = 9 -> "9"

\* str(n) for n >= 0
RECURSIVE str(_)
str(n) == IF n < 10 THEN <<DigitChar(n)>> ELSE str(n \div 10) \o <<DigitChar(n % 10)>>

\* f"temp_audio_{os.getpid()}"
temp_prefix(p) == temp_audio_ \o str(p)

\* the extensions yt-dlp gives the files it writes for the template
\* temp_audio_<pid>.%(ext)s: the finished MP3 and an unfinished download
Exts == {<<"m","p","3">>, <<"w","e","b","m",".","p","a","r","t">>}

\* the template of line 50 with %(ext)s filled in
temp_file_path(p, ext) == temp_prefix(p) \o <<".">> \o ext

\* a directory after a file of that name is written by `by`
WriteFile(dir, name, by) ==
  {f \in dir : f.name # name} \cup {[name |-> name, by |-> by]}

\* the files the download subprocess of process p leaves in the directory
RunWrites(dir, p, written, by) ==
  {f \in dir : \A e \in written : f.name # temp_file_path(p, e)}
    \cup {[name |-> temp_file_path(p, e), by |-> by] : e \in written}

\* line 69: the names in the temp directory that start with the prefix
downloaded_files(dir, p) == {f \in dir : startswith(f.name, temp_prefix(p))}

\* shutil.move(temp_file_path, output_audio): the destination is replaced
move(dir, outdir, f, output_audio) ==
  [tmp |-> dir \ {f}, out |-> WriteFile(outdir, output_audio, f.by)]

----------------------------------------------------------------------------
(* The external tool *)

\* how an invocation of yt-dlp can end: exit status 0, a nonzero exit
\* status, or subprocess.run failing to run it at all
RunOutcomes == {"zero", "nonzero", "oserror"}

\* what the tool prints for --get-title
ToolTitles == {<<"a", "\n">>, <<"a", "!", "\n">>, <<"B", " ", "\n">>}

\* a run that never turns the exit status into an exception
check_never(outcome) == FALSE

\* check=True: a nonzero exit status raises CalledProcessError
check(outcome) == outcome = "nonzero"

\* a title lookup with no fallback
get_video_title_nofallback(outcome, stdout) ==
  IF outcome = "zero" THEN [raised |-> None, title |-> sanitize(stdout)]
  ELSE [raised |-> "OSError", title |-> <<>>]

get_video_title(outcome, stdout) ==
  IF outcome = "oserror" THEN [raised |-> "OSError", title |-> <<>>]
  ELSE IF check(outcome) THEN [raised |-> None, title |-> video]
  ELSE [raised |-> None, title |-> sanitize(stdout)]

\* no file was moved
NoFile == [name |-> <<>>, by |-> None]

\* lines 68-82 of download_audio in process p: list the temp directory,
\* take the first match (os.listdir promises no order) and move it
locate_and_move(output_audio, p, dir, outdir) ==
  IF downloaded_files(dir, p) = {}
  THEN {[tmp |-> dir, out |-> outdir,
         raised |-> "FileNotFoundError", moved |-> NoFile]}
  ELSE {[tmp |-> move(dir, outdir, f, output_audio).tmp,
         out |-> move(dir, outdir, f, output_audio).out,
         raised |-> None, moved |-> f] : f \in downloaded_files(dir, p)}

\* the outcomes of download_audio(url, output_audio) in process p: the
\* directories afterwards, the exception raised and the file moved
download_audio(url, output_audio, outcome, written, p, dir, outdir) ==
  IF outcome = "oserror"
  THEN {[tmp |-> dir, out |-> outdir, raised |-> "OSError", moved |-> NoFile]}
  ELSE IF check(outcome)
       THEN {[tmp |-> RunWrites(dir, p, written, url), out |-> outdir,
              raised |-> "CalledProcessError", moved |-> NoFile]}
       ELSE locate_and_move(output_audio, p, RunWrites(dir, p, written, url), outdir)

\* str(e) of the exceptions
message(exc) ==
  CASE exc = "CalledProcessError" -> "Command returned non-zero exit status"
    [] exc = "FileNotFoundError" -> "Downloaded file not found in temp directory"
    [] exc = "OSError" -> "Cannot run yt-dlp"

----------------------------------------------------------------------------
(* main() *)

\* a start-up check that lets a missing tool pass
check_dependencies_lax(present) == None

check_dependencies(present) == IF present THEN None ELSE "EnvironmentError"

\* the except clauses of main, in order
main_handler(exc) ==
  IF exc = "FileNotFoundError" THEN "File Error"
  ELSE IF exc \in {"EnvironmentError", "OSError"} THEN "Environment Error"
  ELSE "An error occurred"

\* an entry that reports every item as a success
item_result_optimistic(url, exc) == <<url, TRUE, None>>

\* lines 135 and 137: the entry batch_download appends for an item
item_result(url, exc) ==
  IF exc = None THEN <<url, TRUE, None>> ELSE <<url, FALSE, message(exc)>>

Init ==
  /\ pc = "start"
  /\ mode \in {"batch", "interactive"}
  /\ toolPresent \in BOOLEAN
  /\ depChecks = 0 /\ fileReads = 0 /\ subprocCalls = 0
  /\ urls = {} /\ invalidCount = 0 /\ pending = {}
  /\ cur = <<>> /\ title = <<>> /\ titleOutcome = None
  /\ results = <<>> /\ err = None /\ report = None /\ log = {}
  /\ pid \in {1, MaxPid} /\ tmp = {} /\ out = {}
  /\ ReaderIdle /\ SanIdle /\ ConcIdle

Fail(exc) == err' = exc /\ report' = main_handler(exc) /\ pc' = "done"

\* line 147
CheckDependencies ==
  /\ pc = "start"
  /\ depChecks' = depChecks + 1
  /\ IF check_dependencies(toolPresent) # None
     THEN Fail(check_dependencies(toolPresent))
     ELSE /\ pc' = IF mode = "batch" THEN "read" ELSE "input"
          /\ UNCHANGED <<err, report>>
  /\ UNCHANGED <<mode, toolPresent, fileReads, subprocCalls, urls, invalidCount,
                 pending, cur, title, titleOutcome, results, log, fsVars,
                 readerVars, sanVars, concVars>>

\* lines 151-154
ReadFile ==
  /\ pc = "read"
  /\ \E exists \in BOOLEAN, f \in Files :
       LET r == process_url_file(exists, f)
       IN IF r.raised
          THEN /\ Fail("FileNotFoundError")
               /\ UNCHANGED <<fileReads, urls, invalidCount, pending>>
          ELSE /\ fileReads' = fileReads + 1
               /\ urls' = r.unique_urls
               /\ invalidCount' = Len(r.invalid_urls)
               /\ pending' = r.unique_urls
               /\ pc' = IF r.unique_urls = {} THEN "done" ELSE "item"
               /\ UNCHANGED <<err, report>>
  /\ UNCHANGED <<mode, toolPresent, depChecks, subprocCalls, cur, title,
                 titleOutcome, results, log, fsVars, readerVars, sanVars, concVars>>

NextItem(rest) == IF rest = {} THEN "summary" ELSE "item"

\* lines 129-132 and 136-137: the loop takes a URL and looks its title up
BatchTitle ==
  /\ pc = "item"
  /\ \E url \in pending, o \in RunOutcomes, stdout \in ToolTitles :
       LET t == get_video_title(o, stdout)
       IN /\ subprocCalls' = subprocCalls + 1
          /\ cur' = url
          /\ titleOutcome' = o
          /\ pending' = pending \ {url}
          /\ IF t.raised # None
             THEN /\ results' = Append(results, item_result(url, t.raised))
                  /\ pc' = NextItem(pending')
                  /\ UNCHANGED title
             ELSE /\ title' = t.title
                  /\ pc' = "download"
                  /\ UNCHANGED results
  /\ UNCHANGED <<mode, toolPresent, depChecks, fileReads, urls, invalidCount,
                 err, report, log, fsVars, readerVars, sanVars, concVars>>

LogEntry(url, dest, o, written, r) ==
  [url |-> url, dest |-> dest, outcome |-> o, written |-> written,
   raised |-> r.raised, moved |-> r.moved]

\* lines 133-137
BatchDownload ==
  /\ pc = "download" /\ mode = "batch"
  /\ \E o \in RunOutcomes, written \in SUBSET Exts :
       /\ o = "oserror" => written = {}
       /\ \E r \in download_audio(cur, output_path(title), o, written, pid, tmp, out) :
            /\ tmp' = r.tmp
            /\ out' = r.out
            /\ results' = Append(results, item_result(cur, r.raised))
            /\ log' = log \cup {LogEntry(cur, output_path(title), o, written, r)}
  /\ subprocCalls' = subprocCalls + 1
  /\ pc' = NextItem(pending)
  /\ UNCHANGED <<mode, toolPresent, depChecks, fileReads, urls, invalidCount,
                 pending, cur, title, titleOutcome, err, report, pid,
                 readerVars, sanVars, concVars>>

\* lines 159-168
Summary ==
  /\ pc = "summary"
  /\ pc' = "done"
  /\ UNCHANGED <<mode, toolPresent, depChecks, fileReads, subprocCalls, urls,
                 invalidCount, pending, cur, title, titleOutcome, results, err,
                 report, log, fsVars, readerVars, sanVars, concVars>>

\* lines 172-175
Input ==
  /\ pc = "input"
  /\ \E line \in Lines :
       LET youtube_url == strip(line)
       IN /\ cur' = youtube_url
          /\ IF youtube_url = <<>>
             THEN /\ report' = "Invalid URL" /\ pc' = "done"
             ELSE /\ pc' = "title" /\ UNCHANGED report
  /\ UNCHANGED <<mode, toolPresent, depChecks, fileReads, subprocCalls, urls,
                 invalidCount, pending, title, titleOutcome, results, err, log,
                 fsVars, readerVars, sanVars, concVars>>

\* line 177
InteractiveTitle ==
  /\ pc = "title"
  /\ \E o \in RunOutcomes, stdout \in ToolTitles :
       LET t == get_video_title(o, stdout)
       IN /\ subprocCalls' = subprocCalls + 1
          /\ titleOutcome' = o
          /\ IF t.raised # None
             THEN Fail(t.raised) /\ UNCHANGED title
             ELSE title' = t.title /\ pc' = "download" /\ UNCHANGED <<err, report>>
  /\ UNCHANGED <<mode, toolPresent, depChecks, fileReads, urls, invalidCount,
                 pending, cur, results, log, fsVars, readerVars, sanVars, concVars>>

\* lines 180-186
InteractiveDownload ==
  /\ pc = "download" /\ mode = "interactive"
  /\ \E o \in RunOutcomes, written \in SUBSET Exts :
       /\ o = "oserror" => written = {}
       /\ \E r \in download_audio(cur, output_path(title), o, written, pid, tmp, out) :
            /\ tmp' = r.tmp
            /\ out' = r.out
            /\ log' = log \cup {LogEntry(cur, output_path(title), o, written, r)}
            /\ IF r.raised # None
               THEN Fail(r.raised)
               ELSE pc' = "done" /\ UNCHANGED <<err, report>>
  /\ subprocCalls' = subprocCalls + 1
  /\ UNCHANGED <<mode, toolPresent, depChecks, fileReads, urls, invalidCount,
                 pending, cur, title, titleOutcome, results, pid,
                 readerVars, sanVars, concVars>>

Next ==
  \/ CheckDependencies
  \/ ReadFile
  \/ BatchTitle
  \/ BatchDownload
  \/ Summary
  \/ Input
  \/ InteractiveTitle
  \/ InteractiveDownload

Spec == Init /\ [][Next]_vars

----------------------------------------------------------------------------
(* Two instances of the program, each inside one download_audio call, in   *)
(* the same temp directory.  The subprocess of an instance writes its      *)
(* files; the instance lists the directory only after the subprocess has   *)
(* exited, so the other instance can act in between.                       *)

Instances == {"i1", "i2"}

InitConc ==
  /\ cpid \in {f \in [Instances -> 1..MaxPid] : f["i1"] # f["i2"]}
  /\ cpc = [i \in Instances |-> "run"]
  /\ cmoved = [i \in Instances |-> [by |-> None, inflight |-> FALSE]]
  /\ pid = 1 /\ tmp = {} /\ out = {}
  /\ MainIdle /\ ReaderIdle /\ SanIdle

\* lines 52-66: the download subprocess of instance i runs and exits
ConcRun(i) ==
  /\ cpc[i] = "run"
  /\ \E o \in {"zero", "nonzero"}, written \in SUBSET Exts :
       /\ tmp' = RunWrites(tmp, cpid[i], written, i)
       /\ cpc' = [cpc EXCEPT ![i] = IF check(o) THEN "failed" ELSE "locate"]
  /\ UNCHANGED <<cpid, cmoved, pid, out, mainVars, readerVars, sanVars>>

\* lines 68-82: instance i looks for its file and moves it
ConcLocate(i) ==
  /\ cpc[i] = "locate"
  /\ \E r \in locate_and_move(output_path(<<i>>), cpid[i], tmp, out) :
       /\ tmp' = r.tmp
       /\ out' = r.out
       /\ IF r.raised # None
          THEN cpc' = [cpc EXCEPT ![i] = "failed"] /\ UNCHANGED cmoved
          ELSE /\ cpc' = [cpc EXCEPT ![i] = "done"]
               /\ cmoved' = [cmoved EXCEPT ![i] =
                    [by |-> r.moved.by,
                     inflight |-> r.moved.by # i /\ cpc[r.moved.by] = "locate"]]
  /\ UNCHANGED <<cpid, pid, mainVars, readerVars, sanVars>>

NextConc == \E i \in Instances : ConcRun(i) \/ ConcLocate(i)

SpecConc == InitConc /\ [][NextConc]_vars

----------------------------------------------------------------------------
(* Claims about main() *)

Entry(url) == CHOOSE l \in log : l.url = url

Downloaded(url) == \E l \in log : l.url = url

\* C1: the result list has exactly one entry per URL the loop has finished,
\* (url, False, message) for an item whose title lookup or download raised
\* and (url, True, None) for the others, and the loop goes on to the end of
\* the set whatever the items do.
C1_BatchIsolation ==
  mode = "batch" =>
    /\ \A i \in 1..Len(results) :
         LET url == results[i][1]
         IN /\ url \in urls \ pending
            /\ \A j \in 1..Len(results) : results[j][1] = url => j = i
            /\ IF Downloaded(url)
               THEN IF Entry(url).raised = None
                    THEN results[i] = <<url, TRUE, None>>
                    ELSE results[i] = <<url, FALSE, message(Entry(url).raised)>>
               ELSE results[i] = <<url, FALSE, message("OSError")>>
    /\ pc = "item" => Len(results) = Cardinality(urls \ pending)
    /\ pc = "download" => Len(results) + 1 = Cardinality(urls \ pending)
    /\ pc = "summary" \/ (pc = "done" /\ fileReads = 1) =>
         /\ pending = {}
         /\ Len(results) = Cardinality(urls)
         /\ {results[i][1] : i \in 1..Len(results)} = urls

\* three URLs, the second fails, the third is processed and succeeds
C1_Witness ==
  /\ mode = "batch" /\ pc = "done" /\ Len(results) = 3
  /\ results[1][2] /\ ~results[2][2] /\ results[3][2]

\* the download_audio call made by this step, if it made one
NewEntries == log' \ log

\* C2: a download whose subprocess exits nonzero raises CalledProcessError
\* and leaves the output directory exactly as it was.
C2_NonzeroExit ==
  [][\A l \in NewEntries :
       l.outcome = "nonzero" =>
         /\ l.raised = "CalledProcessError"
         /\ l.moved = NoFile
         /\ out' = out
         /\ mode = "interactive" => err' = "CalledProcessError"
         /\ mode = "batch" =>
              results'[Len(results')] = <<l.url, FALSE, message("CalledProcessError")>>]_vars

\* a nonzero exit that left a file in the temp directory, for a destination
\* an earlier item had already written
C2_Witness ==
  \E l \in log :
    /\ l.outcome = "nonzero" /\ l.written # {}
    /\ \E f \in tmp : f.by = l.url
    /\ \E g \in out : g.name = l.dest /\ g.by # l.url

\* C4: check_dependencies runs once, first; when the tool is missing the run
\* ends with the dependency error and has read no URL file, run no
\* subprocess and touched no file.
C4_DependencyFirst ==
  /\ depChecks = (IF pc = "start" THEN 0 ELSE 1)
  /\ pc = "start" =>
       fileReads = 0 /\ subprocCalls = 0 /\ log = {} /\ tmp = {} /\ out = {}
  /\ ~toolPresent =>
       /\ pc \in {"start", "done"}
       /\ fileReads = 0 /\ subprocCalls = 0 /\ log = {} /\ tmp = {} /\ out = {}
       /\ urls = {} /\ results = <<>>
       /\ pc = "done" => err = "EnvironmentError" /\ report = "Environment Error"

\* a run that found the tool missing
C4_Witness == pc = "done" /\ ~toolPresent /\ err = "EnvironmentError"

\* a batch of three items that checked once
C4_WitnessBatch == pc = "done" /\ Len(results) = 3 /\ depChecks = 1

TitleStep == pc \in {"item", "title"} /\ pc' # pc

\* C6 as stated: whenever the title invocation fails, the title is "video"
\* and the URL goes on to the download step.
C6_Original ==
  [][TitleStep /\ titleOutcome' # "zero" =>
       title' = video /\ pc' = "download"]_vars

\* C6 amended: when the title invocation exits nonzero the title is "video"
\* and the URL goes on to download_audio with destination video.mp3, in
\* both modes; when the invocation cannot be run at all, the error leaves
\* get_video_title and the URL is not downloaded.
C6_TitleFallback ==
  [][/\ TitleStep /\ titleOutcome' = "nonzero" =>
          title' = video /\ pc' = "download"
     /\ TitleStep /\ titleOutcome' = "oserror" =>
          /\ pc' # "download"
          /\ mode = "interactive" => err' = "OSError"
          /\ mode = "batch" =>
               results'[Len(results')] = <<cur', FALSE, message("OSError")>>
     /\ pc = "download" /\ titleOutcome = "nonzero" =>
          \A l \in NewEntries : l.url = cur /\ l.dest = output_path(video)]_vars

\* a URL whose title lookup exited nonzero and whose download then ran
C6_Witness ==
  /\ titleOutcome = "nonzero" /\ title = video
  /\ \E l \in log : l.url = cur /\ l.dest = output_path(video) /\ l.raised = None

\* the same in interactive mode
C6_WitnessInteractive == C6_Witness /\ mode = "interactive"

\* C7: in interactive mode a URL that is empty or that the validator rejects
\* is reported as invalid, and neither its title nor its audio is fetched.
C7_InvalidInput ==
  mode = "interactive" /\ pc \notin {"start", "input"} /\ err # "EnvironmentError"
    /\ ~is_valid_youtube_url(cur) =>
      /\ pc = "done" /\ report = "Invalid URL"
      /\ subprocCalls = 0 /\ log = {}

\* C9: in a batch, the file a successful download moves is the one its own
\* subprocess wrote, and a download whose subprocess wrote nothing raises
\* FileNotFoundError.
C9_OwnFile ==
  mode = "batch" =>
    \A l \in log :
      /\ l.raised = None => l.moved.by = l.url
      /\ l.outcome = "zero" /\ l.written = {} => l.raised = "FileNotFoundError"

\* C10: no two successful items of a batch were written to the same
\* destination, so each still has its file in the output directory.
C10_DistinctDestinations ==
  mode = "batch" =>
    \A l1, l2 \in log :
      l1.raised = None /\ l2.raised = None /\ l1.url # l2.url =>
        l1.dest # l2.dest

----------------------------------------------------------------------------
(* Claims about concurrent instances *)

\* C3: an instance never finds or moves a temp file written by another
\* instance whose fetch is still in flight, whatever the two process ids.
C3_TempIsolation ==
  \A i \in Instances :
    /\ ~cmoved[i].inflight
    /\ cpc[i] = "locate" =>
         \A f \in downloaded_files(tmp, cpid[i]) :
           f.by # i => cpc[f.by] # "locate"

----------------------------------------------------------------------------
(* Claims about the title clean-up *)

AllowedSet == LowerCase \cup UpperCase \cup Digit \cup {" ", "-", "_", ".", "(", ")"}

RECURSIVE DropOthers(_)
DropOthers(s) ==
  IF s = <<>> THEN <<>>
  ELSE IF Head(s) \in AllowedSet THEN <<Head(s)>> \o DropOthers(Tail(s))
       ELSE DropOthers(Tail(s))

\* C8 as stated: for every raw title the cleaned title has only characters
\* of the allowed set, is the raw title with exactly the other characters
\* dropped, and cleaning it a second time changes nothing.
C8_Original ==
  /\ spc \in {"clean", "again"} =>
       /\ \A i \in 1..Len(san) : san[i] \in AllowedSet
       /\ san = DropOthers(raw)
  /\ spc = "again" => san2 = san

\* C8 amended: the cleaned title has only characters of the allowed set and
\* is the whitespace-stripped raw title with the other characters dropped in
\* order; cleaning it again yields the cleaned title stripped of the spaces
\* at its ends, so a second cleaning changes nothing exactly when the
\* cleaned title neither starts nor ends with a space.
C8_Sanitizer ==
  /\ spc \in {"clean", "again"} =>
       /\ \A i \in 1..Len(san) : san[i] \in AllowedSet
       /\ san = DropOthers(strip(raw))
  /\ spc = "again" =>
       /\ san2 = strip(san)
       /\ (san2 = san) <=> (san = <<>> \/ (san[1] # " " /\ san[Len(san)] # " "))

\* a raw title with a character to drop, whose cleaned form ends in a space
C8_Witness ==
  /\ spc = "again"
  /\ \E i \in 1..Len(raw) : raw[i] \notin AllowedSet
  /\ san # <<>> /\ san[Len(san)] = " "
  /\ san2 # san

----------------------------------------------------------------------------
(* Claims about process_url_file *)

\* C5: an existing file yields the set of distinct stripped non-blank lines
\* the validator accepts, and an invalid count equal to the number of
\* non-blank lines it rejects; a missing path raises instead.
C5_BatchReader ==
  rpc = "done" =>
    IF ~rexists
    THEN rresult.raised
    ELSE LET nonblank == {i \in 1..Len(rfile) : strip(rfile[i]) # <<>>}
         IN /\ ~rresult.raised
            /\ rresult.unique_urls =
                 {strip(rfile[i]) : i \in {j \in nonblank :
                                           is_valid_youtube_url(strip(rfile[j]))}}
            /\ Len(rresult.invalid_urls) =
                 Cardinality({i \in nonblank : ~is_valid_youtube_url(strip(rfile[i]))})

\* a file with a duplicated valid URL, a blank line and an invalid line
C5_Witness ==
  /\ rpc = "done" /\ rexists /\ Len(rfile) = 3
  /\ \E i \in 1..3 : strip(rfile[i]) = <<>>
  /\ Cardinality(rresult.unique_urls) = 1
  /\ Len(rresult.invalid_urls) = 1

\* a path that does not exist
C5_WitnessMissing == rpc = "done" /\ ~rexists /\ rresult.raised

====
